---- MODULE Spec2Model ----
(***************************************************************************)
(* State-machine model of PylonCameraNode                                  *)
(* (src/src/pylon_camera/pylon_camera_node.cpp).                           *)
(*                                                                         *)
(* Threads: "main" runs the periodic publisher spin() and the service      *)
(* callbacks, which yield through ros::spinOnce(); "act" is the            *)
(* SimpleActionServer thread running sequenceRawActionExecuteCB; "seq" is  *)
(* the caller of grabSequence().                                           *)
(*                                                                         *)
(* Time is counted in tenths of a second.  The absolute clock `now` stops  *)
(* at MaxClock; the time a callback has spent since it took `start`        *)
(* (ros::Time::now() - start) is counted on its own in svc_elapsed.        *)
(***************************************************************************)
EXTENDS Integers, Sequences, FiniteSets, TLC

\* ------------------------------------------------------------------ bounds
\* Largest configured burst length (params_.desired_seq_exp_times_.size()).
MaxSeqLen == 3
\* Largest number of image subscribers.
MaxSubscribers == 1
\* Largest reading of the absolute clock.
MaxClock == 1
\* A poll sleep lasts its period, or up to this much longer.
MaxOversleep == 1
\* Longest FrameBuffer content whose brightness is computed on its own.
MaxBytes == 3
\* Elapsed time is counted up to this value (beyond every deadline).
MaxElapsed == 160
\* Reads and writes of a device property are counted up to this number.
MaxCount == 2

\* ------------------------------------------------------ program constants
\* target_brightness_(-42) in the constructor
InitialTargetBrightness == -42
\* ros::Rate r(5.0): one cycle is 0.2 s
PollPeriod == 2
\* ros::Rate r(2.0): one cycle is 0.5 s
ReadyPeriod == 5
\* ros::Duration(3.0), the readiness wait of setBrightnessCallback
ReadyDeadline == 30
\* ros::Duration(5.0), the exposure wait of setExposureCallback
ExposureDeadline == 50
\* if (target_brightness_ > 205)
LongWaitThreshold == 205
\* duration = ros::Duration(15.0)
LongBrightnessDeadline == 150
\* duration = ros::Duration(5.0)
BrightnessDeadline == 50
\* if (abs(target - mean) > 2)
BrightnessTolerance == 2

\* --------------------------------------------------------- input domains
\* Frames the device can deliver (byte sequences).
Frames == {<<100>>, <<102, 103>>}
\* Exposures the device can report, and requests for them.
ExposureValues == {10, 11, 20}
\* Exposure steps the device can report.
ExposureSteps == {0, 2}
\* Requested brightness targets.
BrightnessTargets == {99, 100, 205, 206}

Ops == {"tick", "seq", "act"}

Min(a, b) == IF a < b THEN a ELSE b

VARIABLES
    \* configuration
    use_sequencer,      \* params_.use_sequencer_
    seq_len,            \* params_.desired_seq_exp_times_.size()
    \* device (pylon_camera_) and ROS environment
    dev_ready,          \* pylon_camera_->isReady()
    dev_removed,        \* pylon_camera_->isCamRemoved()
    ros_ok,             \* ros::ok(); FALSE once ros::shutdown() was called
    now,                \* ros::Time::now()
    subscribers,        \* img_raw_pub_.getNumSubscribers()
    \* node members
    img_data,           \* img_raw_msg_.data
    img_stamp,          \* img_raw_msg_.header.stamp
    cam_stamp,          \* cam_info_msg_.header.stamp
    exp_stamp,          \* exp_times_.header.stamp
    brightness_service_running_,
    target_brightness_,
    is_sleeping_,
    grab_mutex_,        \* boost::recursive_mutex: [owner, count]
    \* spin() on the main thread
    pc_tick,
    published,          \* last (image, camera info) handed to img_raw_pub_
    publishes,          \* img_raw_pub_.publish() calls of the current tick
    \* grabSequence() on thread "seq"
    pc_seq, seq_i, seq_success, seq_tmp, seq_ret,
    seq_before,         \* FrameBuffer pixels and stamp when the burst began
    \* sequenceRawActionExecuteCB() on thread "act"
    pc_act, act_i, act_result, act_reported,
    \* bookkeeping per grab operation, from its start to the next start: a raw
    \* grab failed, a raw grab succeeded, a raw grab failed on a removed
    \* device, the frame delivered by the raw grab at the middle index, and
    \* the number of ros::shutdown() calls, and the number of raw grabs
    fail_seen, ok_seen, removed_seen, mid_grab, sd_calls, raw_grabs,
    \* service callbacks on the main thread
    pc_svc,             \* position inside the running callback
    svc_name,           \* the callback running (or the last one that ran)
    svc_target,         \* req.target_exposure / req.target_brightness
    svc_elapsed,        \* ros::Time::now() - start
    svc_duration,       \* ros::Duration duration
    svc_cur,            \* current_exposure
    svc_read,           \* the exposure and the step read by the last poll
    svc_res,            \* res.success
    svc_outcome,        \* the return statement the callback left through
    spin_ticked,        \* the running ros::spinOnce() has dispatched a tick
    \* bookkeeping per service call: the value read before the wait loop, the
    \* reads and writes of the device property, and whether a poll slept since
    svc_first, dev_reads, dev_writes, svc_slept

vars == <<use_sequencer, seq_len, dev_ready, dev_removed, ros_ok, now,
          subscribers, img_data, img_stamp, cam_stamp, exp_stamp,
          brightness_service_running_, target_brightness_, is_sleeping_,
          grab_mutex_, pc_tick, published, publishes,
          pc_seq, seq_i, seq_success, seq_tmp, seq_ret, seq_before,
          pc_act, act_i, act_result, act_reported,
          fail_seen, ok_seen, removed_seen, mid_grab, sd_calls, raw_grabs,
          pc_svc, svc_name, svc_target, svc_elapsed, svc_duration, svc_cur,
          svc_read,
          svc_res, svc_outcome, spin_ticked,
          svc_first, dev_reads, dev_writes, svc_slept>>

devVars == <<dev_ready, dev_removed>>
cfgVars == <<use_sequencer, seq_len>>
tickVars == <<pc_tick, published, publishes>>
seqVars == <<pc_seq, seq_i, seq_success, seq_tmp, seq_ret, seq_before>>
actVars == <<pc_act, act_i, act_result, act_reported>>
svcVars == <<target_brightness_, pc_svc, svc_name, svc_target, svc_elapsed,
             svc_duration, svc_cur, svc_read, svc_res, svc_outcome,
             svc_first, dev_reads, dev_writes, svc_slept>>
frameVars == <<img_data, img_stamp, cam_stamp, exp_stamp>>
logVars == <<fail_seen, ok_seen, removed_seen, mid_grab, sd_calls, raw_grabs>>

\* ------------------------------------------------------------ grab_mutex_
FreeMutex == [owner |-> "none", count |-> 0]

\* A variant of MutexAvailable that excludes nobody.
MutexAvailable_Unguarded(m, t) == TRUE

\* boost::recursive_mutex::lock() returns for thread t
MutexAvailable(m, t) == m.owner = "none" \/ m.owner = t

MutexLocked(m, t) == [owner |-> t, count |-> m.count + 1]

MutexUnlocked(m) ==
    IF m.count <= 1 THEN FreeMutex ELSE [m EXCEPT !.count = m.count - 1]

\* A variant of LockGuardScope whose lock is not released at the end.
LockGuardScope_Leaked(m, t) == MutexLocked(m, t)

\* A boost::lock_guard on the mutex over a whole function body, on thread t:
\* the mutex when the function has returned.
LockGuardScope(m, t) == MutexUnlocked(MutexLocked(m, t))

\* ------------------------------------------------------------- the device
\* pylon_camera_->grab(buf): the outcomes of one raw grab into buffer buf.
\* A removed device delivers nothing; a failed grab leaves buf as it was.
GrabOutcomes(buf) ==
    IF dev_removed
    THEN {[ok |-> FALSE, data |-> buf]}
    ELSE {[ok |-> TRUE, data |-> f] : f \in Frames}
            \cup {[ok |-> FALSE, data |-> buf]}

\* ---------------------------------------------------------- initial state
NoResult == [set |-> FALSE, images |-> <<>>, success |-> FALSE]
NoFrame == [data |-> <<>>, stamp |-> 0, info_stamp |-> 0]
NoFrameBefore == [data |-> <<>>, stamp |-> 0]
NoRead == [exposure |-> 0, step |-> 0]
NoActResult == [images |-> <<>>, success |-> TRUE]

\* What every initial state shares: the node after its constructor, init()
\* and startGrabbing().  The headers share one stamp, no image has been
\* grabbed, no thread is inside a handler.
\* The members and positions other than the FrameBuffer pixels.
InitExceptFrame ==
    /\ dev_removed = FALSE
    /\ ros_ok = TRUE
    /\ now = 0
    /\ img_stamp = 0 /\ cam_stamp = 0 /\ exp_stamp = 0
    /\ brightness_service_running_ = FALSE
    /\ target_brightness_ = InitialTargetBrightness
    /\ is_sleeping_ = FALSE
    /\ grab_mutex_ = FreeMutex
    /\ pc_tick = "idle" /\ published = NoFrame
    /\ pc_seq = "idle" /\ seq_i = 0 /\ seq_success = TRUE /\ seq_tmp = <<>>
    /\ seq_ret = "none" /\ seq_before = NoFrameBefore
    /\ pc_act = "idle" /\ act_i = 0 /\ act_reported = NoResult
    /\ act_result = NoActResult
    /\ fail_seen = [o \in Ops |-> FALSE]
    /\ ok_seen = [o \in Ops |-> FALSE]
    /\ mid_grab = [o \in Ops |-> <<>>]
    /\ removed_seen = [o \in Ops |-> FALSE]
    /\ sd_calls = [o \in Ops |-> 0]
    /\ raw_grabs = [o \in Ops |-> 0]
    /\ publishes = 0
    /\ pc_svc = "idle" /\ svc_name = "none" /\ svc_target = 0
    /\ svc_elapsed = 0 /\ svc_duration = 0 /\ svc_cur = 0 /\ svc_res = FALSE
    /\ svc_read = NoRead
    /\ svc_outcome = "none" /\ spin_ticked = FALSE
    /\ svc_first = 0 /\ dev_reads = 0 /\ dev_writes = 0 /\ svc_slept = FALSE

\* The node after construction: nothing was grabbed yet.
InitNode ==
    /\ InitExceptFrame
    /\ img_data = <<>>

Init ==
    /\ InitNode
    /\ use_sequencer \in BOOLEAN
    /\ seq_len \in (IF use_sequencer THEN 1..MaxSeqLen ELSE {0})
    /\ dev_ready \in BOOLEAN
    /\ subscribers = 0

\* ------------------------------------------------------- the main thread
\* Positions of a service callback inside ros::spinOnce().
SpinPoints == {"e_spin", "r_spin", "g_spin", "b_spin"}

\* The event loop can dispatch a tick or a request on the main thread: the
\* node is running, and the thread is idle or inside a ros::spinOnce() that
\* has not dispatched a tick yet.
MainLoopDispatch ==
    /\ ros_ok
    /\ pc_tick = "idle"
    /\ pc_svc = "idle" \/ (pc_svc \in SpinPoints /\ ~spin_ticked)

\* ros::shutdown() called from operation op
Shutdown(op) ==
    /\ ros_ok' = FALSE
    /\ sd_calls' = [sd_calls EXCEPT ![op] = @ + 1]

\* Bookkeeping at the start of operation op.
LogStart(op) ==
    /\ fail_seen' = [fail_seen EXCEPT ![op] = FALSE]
    /\ ok_seen' = [ok_seen EXCEPT ![op] = FALSE]
    /\ mid_grab' = [mid_grab EXCEPT ![op] = <<>>]
    /\ removed_seen' = [removed_seen EXCEPT ![op] = FALSE]
    /\ sd_calls' = [sd_calls EXCEPT ![op] = 0]
    /\ raw_grabs' = [raw_grabs EXCEPT ![op] = 0]

\* Bookkeeping of the raw grab at index i of operation op, with outcome g.
LogGrab(op, i, g) ==
    /\ fail_seen' = [fail_seen EXCEPT ![op] = @ \/ ~g.ok]
    /\ ok_seen' = [ok_seen EXCEPT ![op] = @ \/ g.ok]
    /\ mid_grab' = IF g.ok /\ i = seq_len \div 2
                   THEN [mid_grab EXCEPT ![op] = g.data]
                   ELSE mid_grab
    /\ removed_seen' = [removed_seen EXCEPT ![op] = @ \/ (~g.ok /\ dev_removed)]
    /\ raw_grabs' = [raw_grabs EXCEPT ![op] = @ + 1]

\* ------------------------------------------------------------------ spin()
\* A variant of TickGrabs that does not look at the sleeping flag.
TickGrabs_IgnoresSleeping(subs, sleeping) == subs > 0

\* if (getNumSubscribers() > 0 && !is_sleeping())
TickGrabs(subs, sleeping) == subs > 0 /\ ~sleeping

\* spin() is entered; it returns at once unless the tick is to grab.
spin_enter ==
    /\ MainLoopDispatch
    /\ spin_ticked' = (pc_svc \in SpinPoints)
    /\ pc_tick' = IF TickGrabs(subscribers, is_sleeping_)
                  THEN "probe" ELSE "idle"
    /\ LogStart("tick")
    /\ UNCHANGED <<cfgVars, devVars, ros_ok, now, subscribers, frameVars,
                   brightness_service_running_, is_sleeping_, grab_mutex_,
                   published, seqVars, actVars, svcVars>>
    /\ publishes' = 0

\* checkForPylonAutoFunctionRunning() inside try/catch: the device answers
\* running or not running, or the property access throws and is swallowed.
checkForPylonAutoFunctionRunning ==
    /\ pc_tick = "probe"
    /\ \E answer \in {"running", "stopped", "AccessException"} :
          brightness_service_running_' =
              IF answer = "AccessException"
              THEN brightness_service_running_
              ELSE (answer = "running")
    /\ pc_tick' = "lock"
    /\ UNCHANGED <<cfgVars, devVars, ros_ok, now, subscribers, frameVars,
                   target_brightness_, is_sleeping_, grab_mutex_, published,
                   publishes, seqVars, actVars, logVars,
                   pc_svc, svc_name, svc_target, svc_elapsed, svc_duration,
                   svc_cur, svc_read, svc_res, svc_outcome, svc_first,
                   dev_reads, dev_writes, svc_slept, spin_ticked>>

\* grabImage(): boost::lock_guard<boost::recursive_mutex> lock(grab_mutex_)
grabImage_lock ==
    /\ pc_tick = "lock"
    /\ MutexAvailable(grab_mutex_, "main")
    /\ grab_mutex_' = MutexLocked(grab_mutex_, "main")
    /\ pc_tick' = "grab"
    /\ UNCHANGED <<cfgVars, devVars, ros_ok, now, subscribers, frameVars,
                   brightness_service_running_, is_sleeping_, published,
                   publishes, seqVars, actVars, logVars, svcVars, spin_ticked>>

\* grabImage(): the raw grab into img_raw_msg_.data, the failure branch or
\* the two stamps, and the release of the lock on return.
grabImage_grab ==
    /\ pc_tick = "grab"
    /\ \E g \in GrabOutcomes(img_data) :
          /\ LogGrab("tick", 0, g)
          /\ img_data' = g.data
          /\ IF ~g.ok
             THEN /\ IF dev_removed
                     THEN Shutdown("tick")
                     ELSE UNCHANGED <<ros_ok, sd_calls>>
                  /\ UNCHANGED <<img_stamp, cam_stamp>>
                  /\ pc_tick' = "idle"
             ELSE /\ img_stamp' = now
                  /\ cam_stamp' = now
                  /\ UNCHANGED <<ros_ok, sd_calls>>
                  /\ pc_tick' = "publish"
    /\ grab_mutex_' = MutexUnlocked(grab_mutex_)
    /\ UNCHANGED <<cfgVars, devVars, now, subscribers, exp_stamp,
                   brightness_service_running_, is_sleeping_, published,
                   publishes, seqVars, actVars, svcVars, spin_ticked>>

\* img_raw_pub_.publish(img_raw_msg_, cam_info_msg_)
spin_publish ==
    /\ pc_tick = "publish"
    /\ published' = [data |-> img_data, stamp |-> img_stamp,
                     info_stamp |-> cam_stamp]
    /\ publishes' = publishes + 1
    /\ pc_tick' = "idle"
    /\ UNCHANGED <<cfgVars, devVars, ros_ok, now, subscribers, frameVars,
                   brightness_service_running_, is_sleeping_, grab_mutex_,
                   seqVars, actVars, logVars, svcVars, spin_ticked>>

\* ----------------------------------------------------------- grabSequence()
\* std::size_t mid = params_.desired_seq_exp_times_.size() / 2
SeqMid == seq_len \div 2

\* if (i == mid && success)
KeepsFrame(i, success) == i = SeqMid /\ success

\* lock_guard, success = true, empty tmp_image, i = 0
grabSequence_enter ==
    /\ pc_seq = "idle"
    /\ use_sequencer /\ ros_ok
    /\ MutexAvailable(grab_mutex_, "seq")
    /\ grab_mutex_' = MutexLocked(grab_mutex_, "seq")
    /\ pc_seq' = "loop"
    /\ seq_i' = 0
    /\ seq_success' = TRUE
    /\ seq_tmp' = <<>>
    /\ seq_ret' = "none"
    /\ seq_before' = [data |-> img_data, stamp |-> img_stamp]
    /\ LogStart("seq")
    /\ UNCHANGED <<cfgVars, devVars, ros_ok, now, subscribers, frameVars,
                   brightness_service_running_, is_sleeping_, tickVars,
                   actVars, svcVars, spin_ticked>>

\* One iteration of the for loop: the raw grab into tmp_image, the failure
\* branch, and the copy of the middle frame into img_raw_msg_.
grabSequence_iter ==
    /\ pc_seq = "loop"
    /\ seq_i < seq_len
    /\ \E g \in GrabOutcomes(seq_tmp) :
          /\ LogGrab("seq", seq_i, g)
          /\ seq_tmp' = g.data
          /\ seq_success' = (seq_success /\ g.ok)
          /\ IF ~g.ok /\ dev_removed
             THEN Shutdown("seq")
             ELSE UNCHANGED <<ros_ok, sd_calls>>
          /\ IF KeepsFrame(seq_i, seq_success /\ g.ok)
             THEN /\ img_data' = g.data
                  /\ img_stamp' = now
             ELSE UNCHANGED <<img_data, img_stamp>>
    /\ seq_i' = seq_i + 1
    /\ UNCHANGED <<cfgVars, devVars, now, subscribers, cam_stamp, exp_stamp,
                   brightness_service_running_, is_sleeping_, grab_mutex_,
                   tickVars, pc_seq, seq_ret, seq_before, actVars, svcVars,
                   spin_ticked>>

\* After the loop: return false, or copy the stamp to cam_info_msg_ and
\* exp_times_ and return true.  The locals go, the lock_guard releases.
grabSequence_return ==
    /\ pc_seq = "loop"
    /\ ~(seq_i < seq_len)
    /\ IF ~seq_success
       THEN /\ seq_ret' = "false"
            /\ UNCHANGED <<cam_stamp, exp_stamp>>
       ELSE /\ cam_stamp' = img_stamp
            /\ exp_stamp' = img_stamp
            /\ seq_ret' = "true"
    /\ grab_mutex_' = MutexUnlocked(grab_mutex_)
    /\ pc_seq' = "idle"
    /\ seq_i' = 0 /\ seq_success' = TRUE /\ seq_tmp' = <<>>
    /\ seq_before' = NoFrameBefore
    /\ UNCHANGED <<cfgVars, devVars, ros_ok, now, subscribers, img_data,
                   img_stamp, brightness_service_running_, is_sleeping_,
                   tickVars, actVars, logVars, svcVars, spin_ticked>>

\* ---------------------------------------------- sequenceRawActionExecuteCB()
\* Of each result image the model keeps the pixel data; the header fields
\* (encoding, height, width, step, stamp) are left out.
EmptyImage == [data |-> <<>>]

\* A variant of ReportedImages that never clears the images.
ReportedImages_NotCleared(result) == result.images

\* if (!result.success) result.images.clear();
ReportedImages(result) ==
    IF ~result.success THEN <<>> ELSE result.images

\* if (!(pylon_camera_->grab(img.data))) result.success = false;
SuccessAfterGrab(success, ok) == IF ~ok THEN FALSE ELSE success

\* lock_guard, result.images.resize(N), result.success = true, i = 0
sequenceRawActionExecuteCB_enter ==
    /\ pc_act = "idle"
    /\ use_sequencer /\ ros_ok
    /\ MutexAvailable(grab_mutex_, "act")
    /\ grab_mutex_' = MutexLocked(grab_mutex_, "act")
    /\ pc_act' = "loop"
    /\ act_i' = 0
    /\ act_result' = [images |-> [k \in 1..seq_len |-> EmptyImage],
                      success |-> TRUE]
    /\ act_reported' = NoResult
    /\ LogStart("act")
    /\ UNCHANGED <<cfgVars, devVars, ros_ok, now, subscribers, frameVars,
                   brightness_service_running_, is_sleeping_, tickVars,
                   seqVars, svcVars, spin_ticked>>

\* One iteration of the for loop: the raw grab into result.images[i].data
\* and the success flag.
sequenceRawActionExecuteCB_iter ==
    /\ pc_act = "loop"
    /\ act_i < seq_len
    /\ \E g \in GrabOutcomes(act_result.images[act_i + 1].data) :
          /\ LogGrab("act", act_i, g)
          /\ act_result' =
                [images |-> [act_result.images EXCEPT ![act_i + 1] =
                                [data |-> g.data]],
                 success |-> SuccessAfterGrab(act_result.success, g.ok)]
    /\ act_i' = act_i + 1
    /\ UNCHANGED <<cfgVars, devVars, ros_ok, now, subscribers, frameVars,
                   brightness_service_running_, is_sleeping_, grab_mutex_,
                   tickVars, seqVars, pc_act, act_reported, sd_calls,
                   svcVars, spin_ticked>>

\* After the loop: clear the images of a failed burst, setSucceeded(result).
\* The locals go, the lock_guard releases.
sequenceRawActionExecuteCB_return ==
    /\ pc_act = "loop"
    /\ ~(act_i < seq_len)
    /\ act_reported' = [set |-> TRUE,
                        images |-> ReportedImages(act_result),
                        success |-> act_result.success]
    /\ grab_mutex_' = MutexUnlocked(grab_mutex_)
    /\ pc_act' = "idle"
    /\ act_i' = 0 /\ act_result' = NoActResult
    /\ UNCHANGED <<cfgVars, devVars, ros_ok, now, subscribers, frameVars,
                   brightness_service_running_, is_sleeping_, tickVars,
                   seqVars, logVars, svcVars, spin_ticked>>

\* ------------------------------------------------------------- environment
\* The camera is unplugged.
DeviceRemoved ==
    /\ ~dev_removed
    /\ dev_removed' = TRUE
    /\ UNCHANGED <<cfgVars, dev_ready, ros_ok, now, subscribers, frameVars,
                   brightness_service_running_, is_sleeping_, grab_mutex_,
                   tickVars, seqVars, actVars, logVars, svcVars, spin_ticked>>

\* The device starts to report isReady().
DeviceReady ==
    /\ ~dev_ready
    /\ dev_ready' = TRUE
    /\ UNCHANGED <<cfgVars, dev_removed, ros_ok, now, subscribers, frameVars,
                   brightness_service_running_, is_sleeping_, grab_mutex_,
                   tickVars, seqVars, actVars, logVars, svcVars, spin_ticked>>

\* A consumer subscribes to or unsubscribes from image_raw.
SubscribersChange ==
    /\ \E n \in 0..MaxSubscribers :
          /\ n # subscribers
          /\ subscribers' = n
    /\ UNCHANGED <<cfgVars, devVars, ros_ok, now, frameVars,
                   brightness_service_running_, is_sleeping_, grab_mutex_,
                   tickVars, seqVars, actVars, logVars, svcVars, spin_ticked>>

\* Time passes while no callback is running.
ClockTick ==
    /\ pc_svc = "idle"
    /\ now < MaxClock
    /\ now' = now + 1
    /\ UNCHANGED <<cfgVars, devVars, ros_ok, subscribers, frameVars,
                   brightness_service_running_, is_sleeping_, grab_mutex_,
                   tickVars, seqVars, actVars, logVars, svcVars, spin_ticked>>

\* ---------------------------------------------------- setSleepingCallback()
setSleepingCallback ==
    /\ MainLoopDispatch
    /\ \E flag \in BOOLEAN :
          /\ flag # is_sleeping_
          /\ is_sleeping_' = flag
    /\ UNCHANGED <<cfgVars, devVars, ros_ok, now, subscribers, frameVars,
                   brightness_service_running_, grab_mutex_, tickVars,
                   seqVars, actVars, logVars, svcVars, spin_ticked>>

\* ------------------------------------------------- the sequencer (grab) side
\* The node configured with use_sequencer_: the action server is started,
\* the exposure and brightness services are not advertised.  A consumer is
\* subscribed and the device is ready.
InitGrab ==
    /\ InitNode
    /\ use_sequencer = TRUE
    /\ seq_len \in 1..MaxSeqLen
    /\ dev_ready = TRUE
    /\ subscribers = 1

NextGrab ==
    \/ spin_enter
    \/ checkForPylonAutoFunctionRunning
    \/ grabImage_lock
    \/ grabImage_grab
    \/ spin_publish
    \/ grabSequence_enter
    \/ grabSequence_iter
    \/ grabSequence_return
    \/ sequenceRawActionExecuteCB_enter
    \/ sequenceRawActionExecuteCB_iter
    \/ sequenceRawActionExecuteCB_return
    \/ DeviceRemoved
    \/ ClockTick

SpecGrab == InitGrab /\ [][NextGrab]_vars

\* -------------------------------------------------- the service callbacks
\* Where a callback continues when ros::spinOnce() returns.
AfterSpin(pc) ==
    CASE pc = "e_spin" -> "e_sleep"
      [] pc = "r_spin" -> "r_sleep"
      [] pc = "g_spin" -> "b_calc"
      [] pc = "b_spin" -> "b_sleep"

\* A variant of TimedOut that gives up at the deadline itself.
TimedOut_AtDeadline(elapsed, duration) == elapsed >= duration

\* ros::Time::now() - start > duration
TimedOut(elapsed, duration) == elapsed > duration

\* One more read or write of a device property, counted up to MaxCount.
Counted(n) == Min(n + 1, MaxCount)

\* Bookkeeping at the start of a service call.
CallStart(name, target) ==
    /\ svc_name' = name
    /\ svc_target' = target
    /\ svc_res' = FALSE
    /\ svc_slept' = FALSE
    /\ svc_read' = NoRead

\* Bookkeeping when a callback returns: its locals go.
CallReturn(outcome) ==
    /\ pc_svc' = "idle"
    /\ svc_outcome' = outcome
    /\ svc_elapsed' = 0
    /\ svc_duration' = 0
    /\ svc_cur' = 0

\* r.sleep() at the end of a poll: a cycle of the rate, or longer.
Rate_sleep ==
    /\ pc_svc \in {"e_sleep", "r_sleep", "b_sleep"}
    /\ \E d \in 0..MaxOversleep :
          LET period == IF pc_svc = "r_sleep" THEN ReadyPeriod ELSE PollPeriod
          IN  /\ svc_elapsed' = Min(svc_elapsed + period + d, MaxElapsed)
              /\ now' = Min(now + period + d, MaxClock)
    /\ pc_svc' = CASE pc_svc = "e_sleep" -> "e_loop"
                   [] pc_svc = "r_sleep" -> "r_loop"
                   [] pc_svc = "b_sleep" -> "b_loop"
    /\ svc_slept' = TRUE
    /\ UNCHANGED <<cfgVars, devVars, ros_ok, subscribers, frameVars,
                   brightness_service_running_, target_brightness_,
                   is_sleeping_, grab_mutex_, tickVars, seqVars, actVars,
                   logVars, svc_name, svc_target, svc_duration, svc_cur,
                   svc_read, svc_res, svc_outcome, svc_first, dev_reads,
                   dev_writes, spin_ticked>>

\* ros::spinOnce() returns, after the tick it dispatched (if any) is done.
spinOnce_return ==
    /\ pc_svc \in SpinPoints
    /\ pc_tick = "idle"
    /\ pc_svc' = AfterSpin(pc_svc)
    /\ spin_ticked' = FALSE
    /\ UNCHANGED <<cfgVars, devVars, ros_ok, now, subscribers, frameVars,
                   brightness_service_running_, target_brightness_,
                   is_sleeping_, grab_mutex_, tickVars, seqVars, actVars,
                   logVars, svc_name, svc_target, svc_elapsed, svc_duration,
                   svc_cur, svc_read, svc_res, svc_outcome, svc_first,
                   dev_reads, dev_writes, svc_slept>>

\* ---------------------------------------------------- setExposureCallback()
\* A variant of NotReady that lets every request through.
NotReady_Ignored(ready) == FALSE

\* if (!pylon_camera_->isReady())
NotReady(ready) == ~ready

\* A variant of ExposureConverged that accepts a distance of one step.
ExposureConverged_Inclusive(current, target, step) ==
    (IF current >= target THEN current - target ELSE target - current) <= step

\* fabs(current_exposure - req.target_exposure) < exposureStep()
ExposureConverged(current, target, step) ==
    (IF current >= target THEN current - target ELSE target - current) < step

\* A variant of ExposureWritten that skips the write for a near miss too.
ExposureWritten_FarOnly(current, target) ==
    current - target > 1 \/ target - current > 1

\* A variant of ExposureWritten that writes whatever was read.
ExposureWritten_Always(current, target) == TRUE

\* if (current_exposure != req.target_exposure) setExposure(...)
ExposureWritten(current, target) == current # target

\* From the entry to the while loop: the readiness check, the first read of
\* the exposure, the write, ros::Time start.
setExposureCallback_enter ==
    /\ MainLoopDispatch /\ pc_svc = "idle"
    /\ ~use_sequencer
    /\ \E target \in ExposureValues :
          /\ CallStart("SetExposure", target)
          /\ IF NotReady(dev_ready)
             THEN /\ CallReturn("not_ready")
                  /\ svc_first' = 0
                  /\ dev_reads' = 0
                  /\ dev_writes' = 0
             ELSE \E current \in ExposureValues :
                     /\ svc_first' = current
                     /\ svc_cur' = current
                     /\ dev_reads' = 1
                     /\ dev_writes' =
                           IF ExposureWritten(current, target) THEN 1 ELSE 0
                     /\ svc_elapsed' = 0
                     /\ svc_duration' = ExposureDeadline
                     /\ svc_outcome' = "none"
                     /\ pc_svc' = "e_loop"
    /\ UNCHANGED <<cfgVars, devVars, ros_ok, now, subscribers, frameVars,
                   brightness_service_running_, target_brightness_,
                   is_sleeping_, grab_mutex_, tickVars, seqVars, actVars,
                   logVars, spin_ticked>>

\* One pass of while (ros::ok()): the read, the convergence test and the
\* deadline test, up to ros::spinOnce(); or the exit of the loop.
setExposureCallback_poll ==
    /\ pc_svc = "e_loop"
    /\ IF ~ros_ok
       THEN /\ CallReturn("shutdown")
            /\ UNCHANGED <<svc_res, dev_reads, svc_read>>
       ELSE \E current \in ExposureValues, step \in ExposureSteps :
               /\ dev_reads' = Counted(dev_reads)
               /\ svc_read' = [exposure |-> current, step |-> step]
               /\ IF ExposureConverged(current, svc_target, step)
                  THEN /\ svc_res' = TRUE
                       /\ CallReturn("converged")
                  ELSE IF TimedOut(svc_elapsed, ExposureDeadline)
                  THEN /\ svc_res' = FALSE
                       /\ CallReturn("timeout")
                  ELSE /\ svc_res' = FALSE
                       /\ svc_cur' = current
                       /\ pc_svc' = "e_spin"
                       /\ UNCHANGED <<svc_outcome, svc_elapsed, svc_duration>>
    /\ UNCHANGED <<cfgVars, devVars, ros_ok, now, subscribers, frameVars,
                   brightness_service_running_, target_brightness_,
                   is_sleeping_, grab_mutex_, tickVars, seqVars, actVars,
                   logVars, svc_name, svc_target, svc_first, dev_writes,
                   svc_slept, spin_ticked>>

\* -------------------------------------------------- setBrightnessCallback()
RECURSIVE SumBytes(_)
\* std::accumulate(data.begin(), data.end(), 0)
SumBytes(data) ==
    IF data = <<>> THEN 0 ELSE Head(data) + SumBytes(Tail(data))

\* What the division by data.size() = 0 can leave in mean when the
\* assertion is compiled out and the division does not trap.
MeansOfNothing == {0, 255}

\* calcCurrentBrightness() on img_raw_msg_.data: the integer quotient
\* sum / size.  On empty data the assertion aborts the process, or, compiled
\* out, the division by zero traps or yields some value.
calcCurrentBrightness(data) ==
    IF Len(data) = 0
    THEN {[aborted |-> TRUE, value |-> 0]}
            \cup {[aborted |-> FALSE, value |-> v] : v \in MeansOfNothing}
    ELSE {[aborted |-> FALSE, value |-> SumBytes(data) \div Len(data)]}

Abs(x) == IF x < 0 THEN -x ELSE x

\* A variant of brightnessValidation with a tolerance one wider.
brightnessValidation_Loose(target, mean) ==
    IF Abs(target - mean) > BrightnessTolerance + 1 THEN FALSE ELSE TRUE

\* brightnessValidation(target) with mean = calcCurrentBrightness()
brightnessValidation(target, mean) ==
    IF Abs(target - mean) > BrightnessTolerance THEN FALSE ELSE TRUE

\* A variant of BrightnessDuration that extends the deadline from 205 on.
BrightnessDuration_Inclusive(target) ==
    IF target >= LongWaitThreshold
    THEN LongBrightnessDeadline ELSE BrightnessDeadline

\* duration: 15 s if (target_brightness_ > 205), else 5 s
BrightnessDuration(target) ==
    IF target > LongWaitThreshold
    THEN LongBrightnessDeadline ELSE BrightnessDeadline

\* if (current_brightness != target_brightness_) setBrightness(...)
BrightnessWritten(current, target) == current # target

\* The process is gone: assert(img_raw_msg_.data.size() > 0) failed.
Abort ==
    /\ pc_svc' = "aborted"
    /\ svc_outcome' = "aborted"

\* Entry: if (!pylon_camera_->isReady()) take start for the readiness wait.
setBrightnessCallback_enter ==
    /\ MainLoopDispatch /\ pc_svc = "idle"
    /\ ~use_sequencer
    /\ \E target \in BrightnessTargets : CallStart("SetBrightness", target)
    /\ pc_svc' = IF NotReady(dev_ready) THEN "r_loop" ELSE "g_spin"
    /\ svc_outcome' = "none"
    /\ svc_elapsed' = 0
    /\ svc_first' = 0 /\ dev_reads' = 0 /\ dev_writes' = 0
    /\ UNCHANGED <<cfgVars, devVars, ros_ok, now, subscribers, frameVars,
                   brightness_service_running_, target_brightness_,
                   is_sleeping_, grab_mutex_, tickVars, seqVars, actVars,
                   logVars, svc_duration, svc_cur, spin_ticked>>

\* One pass of while (ros::ok() && !isReady()): the 3 s deadline test, up to
\* ros::spinOnce(); or the exit of the loop.
setBrightnessCallback_ready_poll ==
    /\ pc_svc = "r_loop"
    /\ UNCHANGED svc_read
    /\ IF ros_ok /\ ~dev_ready
       THEN IF TimedOut(svc_elapsed, ReadyDeadline)
            THEN /\ svc_res' = FALSE
                 /\ CallReturn("not_ready")
            ELSE /\ pc_svc' = "r_spin"
                 /\ UNCHANGED <<svc_res, svc_outcome, svc_elapsed,
                                svc_duration, svc_cur>>
       ELSE /\ pc_svc' = "g_spin"
            /\ UNCHANGED <<svc_res, svc_outcome, svc_elapsed, svc_duration,
                           svc_cur>>
    /\ UNCHANGED <<cfgVars, devVars, ros_ok, now, subscribers, frameVars,
                   brightness_service_running_, target_brightness_,
                   is_sleeping_, grab_mutex_, tickVars, seqVars, actVars,
                   logVars, svc_name, svc_target, svc_first, dev_reads,
                   dev_writes, svc_slept, spin_ticked>>

\* After "Get actual image": calcCurrentBrightness() under grab_mutex_, the
\* two member assignments, then the write and the choice of the deadline, or
\* the immediate success.
setBrightnessCallback_apply ==
    /\ pc_svc = "b_calc"
    /\ UNCHANGED svc_read
    /\ MutexAvailable(grab_mutex_, "main")
    /\ \E c \in calcCurrentBrightness(img_data) :
          IF c.aborted
          THEN /\ Abort
               /\ UNCHANGED <<target_brightness_, brightness_service_running_,
                              svc_first, dev_reads, dev_writes, svc_res,
                              svc_elapsed, svc_duration, svc_cur, svc_slept>>
          ELSE /\ target_brightness_' = svc_target
               /\ brightness_service_running_' = TRUE
               /\ svc_first' = c.value
               /\ dev_reads' = 1
               /\ svc_slept' = FALSE
               /\ IF BrightnessWritten(c.value, svc_target)
                  THEN /\ dev_writes' = 1
                       /\ svc_duration' = BrightnessDuration(svc_target)
                       /\ svc_elapsed' = 0
                       /\ pc_svc' = "b_loop"
                       /\ UNCHANGED <<svc_res, svc_outcome, svc_cur>>
                  ELSE /\ dev_writes' = 0
                       /\ svc_res' = TRUE
                       /\ CallReturn("equal")
    /\ grab_mutex_' = LockGuardScope(grab_mutex_, "main")
    /\ UNCHANGED <<cfgVars, devVars, ros_ok, now, subscribers, frameVars,
                   is_sleeping_, tickVars, seqVars, actVars,
                   logVars, svc_name, svc_target, spin_ticked>>

\* One pass of while (ros::ok() && brightness_service_running_): the
\* deadline test, up to ros::spinOnce(); or the exit of the loop.
setBrightnessCallback_poll ==
    /\ pc_svc = "b_loop"
    /\ UNCHANGED svc_read
    /\ IF ros_ok /\ brightness_service_running_
       THEN IF TimedOut(svc_elapsed, svc_duration)
            THEN /\ brightness_service_running_' = FALSE
                 /\ svc_res' = FALSE
                 /\ CallReturn("timeout")
            ELSE /\ pc_svc' = "b_spin"
                 /\ UNCHANGED <<brightness_service_running_, svc_res,
                                svc_outcome, svc_elapsed, svc_duration,
                                svc_cur>>
       ELSE /\ pc_svc' = "b_valid"
            /\ UNCHANGED <<brightness_service_running_, svc_res, svc_outcome,
                           svc_elapsed, svc_duration, svc_cur>>
    /\ UNCHANGED <<cfgVars, devVars, ros_ok, now, subscribers, frameVars,
                   target_brightness_, is_sleeping_, grab_mutex_, tickVars,
                   seqVars, actVars, logVars, svc_name, svc_target, svc_first,
                   dev_reads, dev_writes, svc_slept, spin_ticked>>

\* res.success = brightnessValidation(req.target_brightness); return
setBrightnessCallback_validate ==
    /\ pc_svc = "b_valid"
    /\ UNCHANGED svc_read
    /\ MutexAvailable(grab_mutex_, "main")
    /\ \E c \in calcCurrentBrightness(img_data) :
          IF c.aborted
          THEN /\ Abort
               /\ UNCHANGED <<svc_res, svc_elapsed, svc_duration, svc_cur>>
          ELSE /\ svc_res' = brightnessValidation(svc_target, c.value)
               /\ CallReturn("validated")
    /\ grab_mutex_' = LockGuardScope(grab_mutex_, "main")
    /\ UNCHANGED <<cfgVars, devVars, ros_ok, now, subscribers, frameVars,
                   brightness_service_running_, target_brightness_,
                   is_sleeping_, tickVars, seqVars, actVars,
                   logVars, svc_name, svc_target, svc_first, dev_reads,
                   dev_writes, svc_slept, spin_ticked>>

\* ----------------------------------------------------- the service side
\* The node configured without use_sequencer_: the exposure and brightness
\* services are advertised, the action server is not started.  A consumer is
\* subscribed.
InitSvc ==
    /\ InitNode
    /\ use_sequencer = FALSE
    /\ seq_len = 0
    /\ dev_ready \in BOOLEAN
    /\ subscribers = 1

NextSvc ==
    \/ spin_enter
    \/ checkForPylonAutoFunctionRunning
    \/ grabImage_lock
    \/ grabImage_grab
    \/ spin_publish
    \/ setExposureCallback_enter
    \/ setExposureCallback_poll
    \/ setBrightnessCallback_enter
    \/ setBrightnessCallback_ready_poll
    \/ setBrightnessCallback_apply
    \/ setBrightnessCallback_poll
    \/ setBrightnessCallback_validate
    \/ spinOnce_return
    \/ Rate_sleep
    \/ DeviceRemoved
    \/ DeviceReady

SpecSvc == InitSvc /\ [][NextSvc]_vars

\* The steps of a running callback and of a running tick: code that is
\* executing keeps executing.  Dispatching a tick or a request, and the
\* device's changes, are left to the environment.
ServiceStep ==
    \/ setExposureCallback_poll
    \/ setBrightnessCallback_ready_poll
    \/ setBrightnessCallback_apply
    \/ setBrightnessCallback_poll
    \/ setBrightnessCallback_validate
    \/ spinOnce_return
    \/ Rate_sleep

TickStep ==
    \/ checkForPylonAutoFunctionRunning
    \/ grabImage_lock
    \/ grabImage_grab
    \/ spin_publish

SpecSvcFair ==
    /\ SpecSvc
    /\ WF_vars(ServiceStep)
    /\ WF_vars(TickStep)

\* ------------------------------------------------ brightness of a frame
\* Pixel bytes of the frames whose brightness is computed on its own.
ByteValues == {0, 1, 2, 255}

\* Non-empty byte sequences of at most MaxBytes bytes.
ByteSeqs == UNION {[1..n -> ByteValues] : n \in 1..MaxBytes}

\* SetBrightness on a node whose FrameBuffer holds some frame and that has
\* no subscriber, so that no tick replaces the frame: the callback applies
\* calcCurrentBrightness() to it.
InitCalc ==
    /\ InitExceptFrame
    /\ img_data \in ByteSeqs
    /\ use_sequencer = FALSE
    /\ seq_len = 0
    /\ dev_ready = TRUE
    /\ subscribers = 0

NextCalc ==
    \/ spin_enter
    \/ setBrightnessCallback_enter
    \/ spinOnce_return
    \/ setBrightnessCallback_apply
    \/ setBrightnessCallback_poll
    \/ Rate_sleep

SpecCalc == InitCalc /\ [][NextCalc]_vars

\* -------------------------------------------------- the periodic publisher
\* The publisher alone: ticks, while consumers come and go, the node is put
\* to sleep and woken, and the device may fail or be removed.
InitTick ==
    /\ InitNode
    /\ use_sequencer = FALSE
    /\ seq_len = 0
    /\ dev_ready = TRUE
    /\ subscribers \in 0..MaxSubscribers

NextTick ==
    \/ spin_enter
    \/ checkForPylonAutoFunctionRunning
    \/ grabImage_lock
    \/ grabImage_grab
    \/ spin_publish
    \/ SubscribersChange
    \/ setSleepingCallback
    \/ DeviceRemoved
    \/ ClockTick

SpecTick == InitTick /\ [][NextTick]_vars

\* ------------------------------------------------------- the whole node
Next ==
    \/ NextGrab
    \/ NextSvc
    \/ SubscribersChange
    \/ setSleepingCallback

Spec == Init /\ [][Next]_vars


\* ------------------------------------------------------------------ claims
\* A burst is between its first and its last raw grab.
MidBurst ==
    \/ pc_seq = "loop" /\ 0 < seq_i /\ seq_i < seq_len
    \/ pc_act = "loop" /\ 0 < act_i /\ act_i < seq_len

\* The step in which grabImage() performs its raw grab.
TickRawGrab == pc_tick = "grab" /\ pc_tick' # "grab"

\* A burst holds grab_mutex_ from before its first raw grab to after its last.
BurstHoldsMutex ==
    /\ pc_seq = "loop" => grab_mutex_.owner = "seq"
    /\ pc_act = "loop" => grab_mutex_.owner = "act"

\* C1: a burst (grabSequence or the GrabSequence action) holds the grab lock
\* from its first to its last raw grab, and no raw grab of a tick's
\* grabImage() happens between two raw grabs of one burst.
C1_BurstAtomic ==
    []BurstHoldsMutex /\ [][TickRawGrab => ~MidBurst]_vars

\* A tick waits for the lock while a burst is between two of its raw grabs.
C1_Witness == pc_tick = "lock" /\ MidBurst

\* C2: the GrabSequence result of a burst in which some raw grab failed has
\* success = false and no images, whatever the other grabs did; the images
\* number N when success = true and 0 otherwise.
C2_FailedBurstReportsNothing ==
    act_reported.set =>
        /\ fail_seen["act"] =>
              (~act_reported.success /\ act_reported.images = <<>>)
        /\ act_reported.success => Len(act_reported.images) = seq_len
        /\ ~act_reported.success => Len(act_reported.images) = 0

\* A reported burst of at least two grabs in which one grab failed and
\* another succeeded.
C2_Witness ==
    /\ act_reported.set
    /\ seq_len >= 2
    /\ fail_seen["act"] /\ ok_seen["act"]
    /\ ~removed_seen["act"]

\* The steps in which a burst returns success.
SeqReturnsSuccess == pc_seq = "loop" /\ pc_seq' = "idle" /\ seq_ret' = "true"
ActReturnsSuccess ==
    pc_act = "loop" /\ pc_act' = "idle" /\ act_reported'.success

\* C3 (as claimed): when a burst returns success, on either burst path,
\* img_raw_msg_.data holds the frame of the raw grab at index floor(N/2);
\* the action returns N frames, frame i from the i-th raw grab.
C3_MiddleFrameIsCurrent ==
    [][ /\ SeqReturnsSuccess => img_data' = mid_grab["seq"]
        /\ ActReturnsSuccess =>
              /\ Len(act_reported'.images) = seq_len
              /\ act_reported'.images = act_result.images
              /\ img_data' = mid_grab["act"] ]_vars

\* C4 (as claimed): every grab operation that met a device-removed failure
\* has called ros::shutdown() exactly once when it ends, and no operation
\* calls it more than once.
C4_ShutdownExactlyOnce ==
    /\ \A op \in Ops : sd_calls[op] <= 1
    /\ (pc_tick = "idle" /\ removed_seen["tick"]) => sd_calls["tick"] = 1
    /\ (pc_seq = "idle" /\ removed_seen["seq"]) => sd_calls["seq"] = 1
    /\ (pc_act = "idle" /\ removed_seen["act"]) => sd_calls["act"] = 1

\* A service callback is executing.
InCall == pc_svc \notin {"idle", "aborted"}

\* C5: every service call eventually returns a response: each invocation of
\* SetExposure and SetBrightness, once started, comes back to the event loop
\* with its response, whatever the device does.
C5_EveryCallReturns == InCall ~> (pc_svc = "idle")

\* C6: a convergence call whose first read already equals the target issues
\* no device write and returns success at once, without a poll sleep,
\* whatever exposure step the device reports: a SetExposure call that read
\* the target at its start and reads it still is never put to wait, and a
\* SetBrightness call that computed the target returns success on the spot.
C6_AtTargetReturnsAtOnce ==
    /\ (svc_name = "SetExposure" /\ svc_first = svc_target
            /\ svc_cur = svc_target)
          => pc_svc \notin {"e_spin", "e_sleep"}
    /\ (svc_name = "SetExposure" /\ pc_svc # "idle" /\ svc_first = svc_target)
          => dev_writes = 0
    /\ (svc_name = "SetBrightness" /\ dev_reads = 1 /\ svc_first = svc_target)
          => /\ pc_svc = "idle" /\ svc_outcome = "equal"
             /\ svc_res /\ dev_writes = 0 /\ ~svc_slept

\* SetExposure returns without having read an exposure within one step of
\* the target.
ExposureGaveUp ==
    /\ svc_name = "SetExposure"
    /\ pc_svc = "e_loop" /\ pc_svc' = "idle"
    /\ svc_outcome' # "converged"

\* SetBrightness returns after its write with the liveness flag still set.
BrightnessGaveUp ==
    /\ svc_name = "SetBrightness"
    /\ pc_svc \in {"b_loop", "b_valid"} /\ pc_svc' = "idle"
    /\ brightness_service_running_

RefusedExposureCall == setExposureCallback_enter /\ ~dev_ready

\* C8: SetExposure called while the device is not ready returns
\* success=false at once, with no device write, no read of the current
\* exposure, no poll, and no change to any node state.
C8_NotReadyRefused ==
    [][RefusedExposureCall =>
          /\ pc_svc' = "idle" /\ svc_outcome' = "not_ready"
          /\ svc_res' = FALSE
          /\ dev_reads' = 0 /\ dev_writes' = 0 /\ ~svc_slept'
          /\ UNCHANGED <<frameVars, brightness_service_running_,
                         target_brightness_, is_sleeping_, grab_mutex_,
                         tickVars, ros_ok, devVars, cfgVars>>]_vars

C8_Witness ==
    /\ svc_name = "SetExposure" /\ svc_outcome = "not_ready"
    /\ pc_svc = "idle" /\ ~dev_ready /\ ~svc_res

\* A poll of the brightness wait loop with the node running and the liveness
\* flag still set.
BrightnessPoll ==
    /\ pc_svc = "b_loop" /\ pc_svc' # "b_loop"
    /\ ros_ok /\ brightness_service_running_

\* C9: the brightness deadline is selected by target > 205: at every poll of
\* a call whose liveness flag is still set, timeout is reported exactly when
\* the elapsed time exceeds 15 units for a target in 206..255 and 5 units for
\* a target in 0..205; otherwise the call goes on waiting.
C9_DeadlineByThreshold ==
    [][BrightnessPoll =>
          LET limit == IF svc_target \in 206..255
                       THEN LongBrightnessDeadline ELSE BrightnessDeadline
          IN  IF svc_elapsed > limit
              THEN /\ pc_svc' = "idle" /\ svc_outcome' = "timeout"
                   /\ svc_res' = FALSE
              ELSE pc_svc' = "b_spin"]_vars

C9_Witness ==
    /\ svc_name = "SetBrightness" /\ svc_target = 205
    /\ pc_svc = "idle" /\ svc_outcome = "timeout" /\ ~svc_res

\* SetBrightness returns from its validation, reached with the liveness flag
\* cleared after the one write, on a populated FrameBuffer.
ValidatedReturn ==
    /\ pc_svc = "b_valid" /\ pc_svc' = "idle"
    /\ ~brightness_service_running_ /\ dev_writes = 1
    /\ img_data # <<>>

\* C10: when SetBrightness issued a write and the liveness flag was cleared
\* before the deadline, the call returns success=true if and only if the
\* brightness m computed from the latest FrameBuffer content (the integer
\* quotient of the byte sum by the byte count) satisfies |m - target| <= 2.
C10_ValidatedWithinTolerance ==
    [][ValidatedReturn =>
          (svc_res' = TRUE <=>
              \E m \in 0..255 :
                 /\ m * Len(img_data) <= SumBytes(img_data)
                 /\ SumBytes(img_data) < (m + 1) * Len(img_data)
                 /\ m - svc_target <= 2 /\ svc_target - m <= 2)]_vars

C10_Witness ==
    /\ svc_name = "SetBrightness" /\ svc_outcome = "validated"
    /\ pc_svc = "idle" /\ ros_ok /\ dev_writes = 1
    /\ svc_target = 99 /\ img_data = <<102, 103>> /\ ~svc_res

\* A tick has run at most one raw grab and one publish so far.
TickAtMostOnce == raw_grabs["tick"] <= 1 /\ publishes <= 1

\* spin() returns.
TickEnds == pc_tick # "idle" /\ pc_tick' = "idle"

\* C11: a tick with zero subscribers, or with the sleeping flag set, performs
\* zero raw grabs; a tick with a subscriber and the flag clear performs
\* exactly one raw grab attempt, whatever the auto-brightness probe answers
\* (a property-access error included), and publishes exactly when that grab
\* succeeded.
C11_OneGrabPerTick ==
    /\ []TickAtMostOnce
    /\ [][/\ spin_enter =>
                /\ raw_grabs'["tick"] = 0 /\ publishes' = 0
                /\ IF subscribers = 0 \/ is_sleeping_
                   THEN pc_tick' = "idle"
                   ELSE pc_tick' # "idle"
          /\ TickEnds =>
                /\ raw_grabs'["tick"] = 1
                /\ publishes' = (IF ok_seen'["tick"] THEN 1 ELSE 0)]_vars

C11_Witness ==
    /\ pc_tick = "idle" /\ subscribers >= 1 /\ ~is_sleeping_
    /\ raw_grabs["tick"] = 1 /\ ok_seen["tick"] /\ publishes = 1

\* C12: for every non-empty FrameBuffer content, calcCurrentBrightness
\* returns round(mean(pixel bytes)): the brightness SetBrightness computed
\* from the frame is the arithmetic mean of its bytes rounded to the nearest
\* integer (bytes 1, 2 give 2).
C12_BrightnessIsRoundedMean ==
    (svc_name = "SetBrightness" /\ dev_reads = 1 /\ img_data # <<>>) =>
        svc_first = (2 * SumBytes(img_data) + Len(img_data))
                        \div (2 * Len(img_data))

\* grabSequence() returns false.
SeqReturnsFailure == pc_seq = "loop" /\ pc_seq' = "idle" /\ seq_ret' = "false"

\* C13: a failed burst leaves the last-good frame intact: when grabSequence
\* returns failure, whatever the index of the failing raw grab, the
\* FrameBuffer pixels and timestamp are what they were when the burst began.
C13_FailedBurstKeepsFrame ==
    [][SeqReturnsFailure =>
          /\ img_data' = seq_before.data
          /\ img_stamp' = seq_before.stamp]_vars

\* No grab operation is in progress: nobody holds grab_mutex_.
NoGrabInProgress == grab_mutex_ = FreeMutex

\* C14: whenever no grab operation is in progress, after a success or a
\* failure, the image timestamp equals the camera-info timestamp, and the
\* timestamp is the one taken when the current FrameBuffer pixels were
\* stored.
C14_ConsistentTuple ==
    /\ [](NoGrabInProgress => img_stamp = cam_stamp)
    /\ [][img_data' # img_data => img_stamp' = now]_vars

\* A convergence call is waiting: inside ros::spinOnce() or a poll sleep.
ConvergenceWaits ==
    pc_svc \in SpinPoints \cup {"e_sleep", "r_sleep", "b_sleep"}

\* C15: no convergence loop holds the grab lock across a poll sleep or
\* yield: wherever SetExposure or SetBrightness waits, grab_mutex_ is free
\* unless the tick dispatched inside the yield is in its own grab, which it
\* entered and holds once; so the grab path is never kept out by a wait.
C15_NoLockAcrossWait ==
    ConvergenceWaits =>
        IF pc_tick = "grab"
        THEN grab_mutex_ = [owner |-> "main", count |-> 1]
        ELSE grab_mutex_ = FreeMutex

\* A tick completed its grab inside the yield of a brightness wait.
C15_Witness ==
    /\ pc_svc = "b_spin" /\ pc_tick = "publish"
    /\ raw_grabs["tick"] = 1 /\ ok_seen["tick"]
    /\ grab_mutex_ = FreeMutex

\* A wait loop of a convergence call is at its loop test.
AtLoopTest == pc_svc \in {"e_loop", "r_loop", "b_loop"}

\* C16: once ros::ok() is false, every in-flight convergence poll (exposure
\* wait, brightness readiness wait, brightness liveness wait) ends at its
\* next iteration, without another pass through the loop's yield and sleep
\* and without waiting for its deadline, and the call that was cut short
\* does not report success=true.
C16_ShutdownEndsPolls ==
    [][~ros_ok =>
          /\ AtLoopTest => pc_svc' \notin {"e_spin", "r_spin", "b_spin"}
          /\ (InCall /\ pc_svc' = "idle") => svc_res' = FALSE]_vars

\* The exposure read by the last poll is within one step of the target.
LastReadWithinStep ==
    /\ svc_read.exposure - svc_target < svc_read.step
    /\ svc_target - svc_read.exposure < svc_read.step

\* C17: in SetExposure on a ready device the write is skipped only when the
\* exposure read at the start equals the target exactly; any other start,
\* however close, issues exactly one setExposure(target).  Success is
\* decided by |current - target| < exposureStep at a poll.
C17_WriteUnlessEqual ==
    (svc_name = "SetExposure" /\ dev_reads >= 1) =>
        /\ dev_writes = (IF svc_first = svc_target THEN 0 ELSE 1)
        /\ svc_res => LastReadWithinStep
        /\ (pc_svc = "idle" /\ svc_outcome # "shutdown")
              => (svc_res <=> LastReadWithinStep)

\* A call that started one off the target, inside the step: it wrote once
\* and the first poll found it converged.
C17_Witness ==
    /\ svc_name = "SetExposure" /\ pc_svc = "idle"
    /\ svc_outcome = "converged" /\ svc_res /\ ~svc_slept
    /\ svc_first = 11 /\ svc_target = 10 /\ svc_read.step = 2
    /\ dev_writes = 1

\* C18: brightness is only ever estimated from a populated FrameBuffer:
\* whenever calcCurrentBrightness is about to run, from SetBrightness after
\* its readiness wait or from the validation, img_raw_msg_.data is
\* non-empty, and the process is never aborted by its assertion.
C18_BrightnessFromPopulatedFrame ==
    /\ pc_svc \in {"b_calc", "b_valid"} => img_data # <<>>
    /\ pc_svc # "aborted"

\* SetBrightness returns after it set the liveness flag: on the
\* already-equal path, on timeout, or from the validation (reached with the
\* flag cleared, or early after a shutdown).
BrightnessReturns ==
    /\ svc_name = "SetBrightness"
    /\ pc_svc \in {"b_calc", "b_loop", "b_valid"} /\ pc_svc' = "idle"

\* C19: the liveness flag has one end state per SetBrightness call: on every
\* return path the flag is false when the call returns; and a timeout and a
\* late clear of the flag give the same response in either order, that of
\* the timeout: a call that returns with its deadline exceeded reports
\* success=false.
C19_FlagClearedOnReturn ==
    [][BrightnessReturns =>
          /\ ~brightness_service_running_'
          /\ (pc_svc # "b_calc" /\ svc_elapsed > svc_duration)
                => svc_res' = FALSE]_vars

\* The tick has grabbed its frame and is about to publish it.
TickHoldsFrame == pc_tick = "publish"

\* C20: the frame a tick publishes is the frame that same tick grabbed:
\* between the successful return of grabImage and the publish no step
\* overwrites the pixels or the timestamps of the frame, and the publish
\* never reads the frame while another thread holds the grab lock to write it.
C20_PublishesOwnGrab ==
    /\ [][TickHoldsFrame => UNCHANGED <<img_data, img_stamp, cam_stamp>>]_vars
    /\ [](TickHoldsFrame => grab_mutex_ = FreeMutex)

====
